---- MODULE Spec2Model ----
\* A model of the api_error crate (src/src/lib.rs): the DetailedError container,
\* its one-shot tracing emission, and the e! / w! / detailed_error! macros.
EXTENDS Integers, Sequences, FiniteSets, TLC

VARIABLES
    container,  \* container[c]: the DetailedError value bound to name c, if any
    trace,      \* trace[c]: tracing events emitted for c and constructor returns, in order
    response,   \* response[c]: result of the last to_response() call on c
    shown,      \* shown[c]: result of the last Display rendering of c
    last,       \* last[c]: the operation most recently applied to c
    parts,      \* parts[c]: the (private, public) pair into_inner() returned
    supplied,   \* supplied[c]: the arguments the constructor of c was called with
    origin      \* origin[c]: the entry point (function or macro) that built c

vars == <<container, trace, response, shown, last, parts, supplied, origin>>

\* ---------------------------------------------------------------- bounds
\* Longest source() chain below a private error.
MaxSources == 1
\* Most key => value pairs trailing a macro invocation.
MaxPairs == 2

\* ---------------------------------------------------------------- values
None == [tag |-> "None"]
Some(x) == [tag |-> "Some", val |-> x]

Ids == {"a", "b"}

Min(x, y) == IF x < y THEN x ELSE y

\* tracing::Level
Levels == {"ERROR", "WARN", "INFO", "DEBUG", "TRACE"}

\* Display strings of private errors and of the errors below them.
ErrorTexts == <<"file not found", "query failed", "connection reset", "broken pipe">>

\* A private error P: StdError is its own display string followed by the
\* display strings of its source() chain.
PrivateErrors ==
    UNION { { SubSeq(ErrorTexts, i, j) :
                j \in i..Min(i + MaxSources, Len(ErrorTexts)) } : i \in 1..2 }

\* A public error: an enum value with derive(Debug) and a Display message.
PublicErrors == { [variant |-> "UnexpectedServerError"], [variant |-> "NotFound"] }

\* Displayable values that can stand in the category and the context position.
Texts == {"IBrokeThis", "failed to read my amazing file"}

\* Call sites: std::file!(), std::line!() (a u32, as two 16-bit halves, high
\* half first), std::module_path!().
Sites ==
    { [file |-> "src/main.rs", line |-> <<0, 42>>, module |-> "app"],
      [file |-> "src/db.rs", line |-> <<65535, 65535>>, module |-> "app::db"] }

Keys == {"user_id"}
Vals == {"42", "7"}

\* Sequences over S of length at most n.
SeqsUpTo(S, n) == UNION { [1..k -> S] : k \in 0..n }

\* The key => value pairs that can trail a macro invocation.
PairLists == SeqsUpTo(Keys \X Vals, MaxPairs)

\* ---------------------------------------------------------------- HashMap
EmptyMap == [k \in {} |-> ""]

Insert(m, k, v) == [x \in DOMAIN m \cup {k} |-> IF x = k THEN v ELSE m[x]]

\* HashMap::from([(k, v), ...]): later pairs overwrite earlier ones.
RECURSIVE MapFrom(_)
MapFrom(pairs) ==
    IF pairs = <<>> THEN EmptyMap
    ELSE LET kv == pairs[Len(pairs)]
         IN  Insert(MapFrom(SubSeq(pairs, 1, Len(pairs) - 1)), kv[1], kv[2])

FieldMaps == { MapFrom(ps) : ps \in PairLists }

\* ---------------------------------------------------------------- cause chain
\* A context that replaces the error it wraps.
context_replaces(chain_, ctx) == <<ctx>>

\* Error::new(private).context(ctx): the context becomes the outermost cause.
context(chain_, ctx) == <<ctx>> \o chain_

\* A chain walk that skips nothing.
chain_unskipped(error, n) == error

\* error.chain().skip(n), each cause rendered with to_string().
chain_skip(error, n) == SubSeq(error, n + 1, Len(error))

\* format!("{}", error) of the chained error: the outermost cause alone.
to_string(error) == error[1]

\* ---------------------------------------------------------------- public error
\* format!("{:?}", public) under derive(Debug): the variant's name.
Debug(public) == public.variant

\* format!("{}", public): the thiserror message of the variant.
Display(public) ==
    IF public.variant = "UnexpectedServerError"
    THEN "An unexpected server error occurred, please try again in 5 seconds."
    ELSE "The requested resource does not exist."

\* ToResponse::to_response of the public error: category and msg.
Pub_to_response(public) == [category |-> Debug(public), msg |-> Display(public)]

\* ---------------------------------------------------------------- integers
\* `line as i32 as i64`: sign extension from bit 31.
as_i32_as_i64(line) ==
    IF line[1] >= 32768
    THEN <<65535, 65535, line[1], line[2]>>
    ELSE <<0, 0, line[1], line[2]>>

\* `line as i64` for a u32 line: zero extension to four 16-bit limbs.
as_i64(line) == <<0, 0, line[1], line[2]>>

\* ---------------------------------------------------------------- DetailedError
\* A method's result is the pair of the container afterwards (self) and the
\* tracing events the call emitted (out).

\* The event of an arm with `if has_fields`: additional_context is attached.
with_context(self, severity) ==
    [severity |-> severity,
     errors |-> chain_skip(self.private, 1),
     public_error |-> Debug(self.public),
     category |-> self.meta.category,
     additional_context |-> self.meta.fields,
     file |-> self.meta.file,
     line |-> as_i64(self.meta.line),
     module |-> self.meta.module,
     message |-> to_string(self.private)]

\* The event of an arm without the guard: no additional_context.
without_context(self, severity) ==
    [severity |-> severity,
     errors |-> chain_skip(self.private, 1),
     public_error |-> Debug(self.public),
     category |-> self.meta.category,
     file |-> self.meta.file,
     line |-> as_i64(self.meta.line),
     module |-> self.meta.module,
     message |-> to_string(self.private)]

\* A dispatch whose TRACE arm with fields was copied from the arm without.
dispatch_trace_arm_copied(self) ==
    LET has_fields == DOMAIN self.meta.fields # {}
    IN  CASE self.meta.level = "ERROR" /\ has_fields -> with_context(self, "ERROR")
          [] self.meta.level = "ERROR" /\ ~has_fields -> without_context(self, "ERROR")
          [] self.meta.level = "WARN" /\ has_fields -> with_context(self, "WARN")
          [] self.meta.level = "WARN" /\ ~has_fields -> without_context(self, "WARN")
          [] self.meta.level = "INFO" /\ has_fields -> with_context(self, "INFO")
          [] self.meta.level = "INFO" /\ ~has_fields -> without_context(self, "INFO")
          [] self.meta.level = "DEBUG" /\ has_fields -> with_context(self, "DEBUG")
          [] self.meta.level = "DEBUG" /\ ~has_fields -> without_context(self, "DEBUG")
          [] self.meta.level = "TRACE" /\ has_fields -> without_context(self, "TRACE")
          [] self.meta.level = "TRACE" /\ ~has_fields -> without_context(self, "TRACE")

\* The match on meta.level in log(): ten arms, one tracing macro call each.
dispatch(self) ==
    LET has_fields == DOMAIN self.meta.fields # {}
    IN  CASE self.meta.level = "ERROR" /\ has_fields -> with_context(self, "ERROR")
          [] self.meta.level = "ERROR" /\ ~has_fields -> without_context(self, "ERROR")
          [] self.meta.level = "WARN" /\ has_fields -> with_context(self, "WARN")
          [] self.meta.level = "WARN" /\ ~has_fields -> without_context(self, "WARN")
          [] self.meta.level = "INFO" /\ has_fields -> with_context(self, "INFO")
          [] self.meta.level = "INFO" /\ ~has_fields -> without_context(self, "INFO")
          [] self.meta.level = "DEBUG" /\ has_fields -> with_context(self, "DEBUG")
          [] self.meta.level = "DEBUG" /\ ~has_fields -> without_context(self, "DEBUG")
          [] self.meta.level = "TRACE" /\ has_fields -> with_context(self, "TRACE")
          [] self.meta.level = "TRACE" /\ ~has_fields -> without_context(self, "TRACE")

\* log() without the has_logged check.
log_unguarded(self) ==
    [self |-> [self EXCEPT !.meta.has_logged = TRUE],
     out |-> <<[ev |-> "emit", record |-> dispatch(self)]>>]

\* DetailedError::log(&mut self).
log(self) ==
    IF self.meta.has_logged
    THEN [self |-> self, out |-> <<>>]
    ELSE [self |-> [self EXCEPT !.meta.has_logged = TRUE],
          out |-> <<[ev |-> "emit", record |-> dispatch(self)]>>]

\* new_with_tracing without the err.log() call.
new_with_tracing_unlogged(a) ==
    LET meta == [fields |-> a.fields, file |-> a.file, module |-> a.module,
                 line |-> a.line, level |-> a.level, category |-> a.category,
                 has_logged |-> FALSE]
        private == IF a.context.tag = "Some"
                   THEN context(a.private, a.context.val)
                   ELSE a.private
        err == [public |-> a.public, private |-> private, meta |-> meta]
    IN  [self |-> err, out |-> <<[ev |-> "return"]>>]

\* DetailedError::new_with_tracing: a = [private, public, context, category,
\* level, file, line, module, fields].
new_with_tracing(a) ==
    LET meta == [fields |-> a.fields,
                 file |-> a.file,
                 module |-> a.module,
                 line |-> a.line,
                 level |-> a.level,
                 category |-> a.category,
                 has_logged |-> FALSE]
        private == IF a.context.tag = "Some"
                   THEN context(a.private, a.context.val)
                   ELSE a.private
        err == [public |-> a.public, private |-> private, meta |-> meta]
        logged == log(err)
    IN  [self |-> logged.self, out |-> logged.out \o <<[ev |-> "return"]>>]

\* DetailedError::new: a = [private, public, context, category, level, file,
\* line, module]; the fields are HashMap::with_capacity(0).
new(a) ==
    new_with_tracing(
        [private |-> a.private, public |-> a.public, context |-> a.context,
         category |-> a.category, level |-> a.level, file |-> a.file,
         line |-> a.line, module |-> a.module, fields |-> EmptyMap])

\* A response whose category is the container's category.
to_response_meta_category(self) ==
    [category |-> self.meta.category, msg |-> Display(self.public)]

\* A response whose msg is the private error's message.
to_response_private_msg(self) ==
    [category |-> Debug(self.public), msg |-> to_string(self.private)]

\* DetailedError::to_response(&self).
to_response(self) == Pub_to_response(self.public)

\* DetailedError::into_inner(self).
into_inner(self) == <<self.private, self.public>>

\* A Display that renders the innermost cause.
fmt_innermost(self) == self.private[Len(self.private)]

\* impl Display for DetailedError: write!(f, "{}", self.private).
fmt(self) == to_string(self.private)

\* ---------------------------------------------------------------- macros
\* A macro invocation is its comma-separated expressions after the severity
\* (private, public, then one or two displayable values) and, optionally, a
\* trailing list of key => value pairs. A macro's expansion is the constructor
\* call it produces at the call site, or NoRule when no arm matches.
NoRule == [fn |-> "no rule"]

\* macro_rules! detailed_error.
detailed_error(lvl, inv, site) ==
    LET x == inv.exprs
    IN  CASE Len(x) = 3 /\ inv.pairs = None ->
               [fn |-> "new",
                args |-> [private |-> x[1], public |-> x[2], context |-> None,
                          category |-> x[3], level |-> lvl, file |-> site.file,
                          line |-> site.line, module |-> site.module]]
          [] Len(x) = 4 /\ inv.pairs = None ->
               [fn |-> "new",
                args |-> [private |-> x[1], public |-> x[2], context |-> Some(x[4]),
                          category |-> x[3], level |-> lvl, file |-> site.file,
                          line |-> site.line, module |-> site.module]]
          [] Len(x) = 4 /\ inv.pairs # None ->
               [fn |-> "new_with_tracing",
                args |-> [private |-> x[1], public |-> x[2], context |-> Some(x[4]),
                          category |-> x[3], level |-> lvl, file |-> site.file,
                          line |-> site.line, module |-> site.module,
                          fields |-> MapFrom(inv.pairs.val)]]
          [] OTHER -> NoRule

\* macro_rules! e.
e(inv, site) ==
    LET x == inv.exprs
    IN  CASE Len(x) = 3 /\ inv.pairs = None ->
               detailed_error("ERROR", [exprs |-> <<x[1], x[2], x[3]>>, pairs |-> None], site)
          [] Len(x) = 4 /\ inv.pairs = None ->
               detailed_error("ERROR", [exprs |-> <<x[1], x[2], x[3], x[4]>>, pairs |-> None], site)
          [] OTHER -> NoRule

\* macro_rules! w: the four-expression arm names its third expression $ctx and
\* its fourth $category, and forwards ($category, $ctx).
w(inv, site) ==
    LET x == inv.exprs
    IN  CASE Len(x) = 3 /\ inv.pairs = None ->
               detailed_error("WARN", [exprs |-> <<x[1], x[2], x[3]>>, pairs |-> None], site)
          [] Len(x) = 4 /\ inv.pairs = None ->
               detailed_error("WARN", [exprs |-> <<x[1], x[2], x[4], x[3]>>, pairs |-> None], site)
          [] OTHER -> NoRule

\* The value a constructor call evaluates to.
Eval(call) ==
    IF call.fn = "new" THEN new(call.args) ELSE new_with_tracing(call.args)

\* The arguments new_with_tracing receives in a constructor call.
Received(call) ==
    IF call.fn = "new"
    THEN [private |-> call.args.private, public |-> call.args.public,
          context |-> call.args.context, category |-> call.args.category,
          level |-> call.args.level, file |-> call.args.file,
          line |-> call.args.line, module |-> call.args.module,
          fields |-> EmptyMap]
    ELSE call.args

\* ---------------------------------------------------------------- inputs
Contexts == {None} \cup { Some(t) : t \in Texts }

NewArgs ==
    { [private |-> p, public |-> q, context |-> x, category |-> k, level |-> l,
       file |-> s.file, line |-> s.line, module |-> s.module] :
        p \in PrivateErrors, q \in PublicErrors, x \in Contexts, k \in Texts,
        l \in Levels, s \in Sites }

TracingArgs ==
    { [private |-> a.private, public |-> a.public, context |-> a.context,
       category |-> a.category, level |-> a.level, file |-> a.file,
       line |-> a.line, module |-> a.module, fields |-> f] :
        a \in NewArgs, f \in FieldMaps }

Invocations ==
    { [exprs |-> x, pairs |-> ps] :
        x \in (PrivateErrors \X PublicErrors \X Texts)
              \cup (PrivateErrors \X PublicErrors \X Texts \X Texts),
        ps \in {None} \cup { Some(l) : l \in PairLists } }

\* ---------------------------------------------------------------- state machine
Init ==
    /\ container = [c \in Ids |-> None]
    /\ trace = [c \in Ids |-> <<>>]
    /\ response = [c \in Ids |-> None]
    /\ shown = [c \in Ids |-> None]
    /\ last = [c \in Ids |-> "none"]
    /\ parts = [c \in Ids |-> None]
    /\ supplied = [c \in Ids |-> None]
    /\ origin = [c \in Ids |-> None]

\* let c = <constructor call>;
Bind(c, how, call) ==
    /\ container' = [container EXCEPT ![c] = Some(Eval(call).self)]
    /\ trace' = [trace EXCEPT ![c] = @ \o Eval(call).out]
    /\ supplied' = [supplied EXCEPT ![c] = Some(Received(call))]
    /\ origin' = [origin EXCEPT ![c] = Some(how)]
    /\ last' = [last EXCEPT ![c] = call.fn]
    /\ UNCHANGED <<response, shown, parts>>

Call_new(c) ==
    /\ origin[c] = None
    /\ \E a \in NewArgs :
        Bind(c, [via |-> "new"], [fn |-> "new", args |-> a])

Call_new_with_tracing(c) ==
    /\ origin[c] = None
    /\ \E a \in TracingArgs :
        Bind(c, [via |-> "new_with_tracing"], [fn |-> "new_with_tracing", args |-> a])

Invoke_detailed_error(c) ==
    /\ origin[c] = None
    /\ \E lvl \in Levels, inv \in Invocations, site \in Sites :
        /\ detailed_error(lvl, inv, site) # NoRule
        /\ Bind(c, [via |-> "detailed_error!", level |-> lvl, inv |-> inv, site |-> site],
                detailed_error(lvl, inv, site))

Invoke_e(c) ==
    /\ origin[c] = None
    /\ \E inv \in Invocations, site \in Sites :
        /\ e(inv, site) # NoRule
        /\ Bind(c, [via |-> "e!", level |-> "ERROR", inv |-> inv, site |-> site],
                e(inv, site))

Invoke_w(c) ==
    /\ origin[c] = None
    /\ \E inv \in Invocations, site \in Sites :
        /\ w(inv, site) # NoRule
        /\ Bind(c, [via |-> "w!", level |-> "WARN", inv |-> inv, site |-> site],
                w(inv, site))

\* c.log();
Call_log(c) ==
    /\ container[c].tag = "Some"
    /\ container' = [container EXCEPT ![c] = Some(log(container[c].val).self)]
    /\ trace' = [trace EXCEPT ![c] = @ \o log(container[c].val).out]
    /\ last' = [last EXCEPT ![c] = "log"]
    /\ UNCHANGED <<response, shown, parts, supplied, origin>>

\* let r = c.to_response();
Call_to_response(c) ==
    /\ container[c].tag = "Some"
    /\ response' = [response EXCEPT ![c] = Some(to_response(container[c].val))]
    /\ last' = [last EXCEPT ![c] = "to_response"]
    /\ UNCHANGED <<container, trace, shown, parts, supplied, origin>>

\* let s = c.to_string();
Call_fmt(c) ==
    /\ container[c].tag = "Some"
    /\ shown' = [shown EXCEPT ![c] = Some(fmt(container[c].val))]
    /\ last' = [last EXCEPT ![c] = "fmt"]
    /\ UNCHANGED <<container, trace, response, parts, supplied, origin>>

\* let (private, public) = c.into_inner();  c is moved out of.
Call_into_inner(c) ==
    /\ container[c].tag = "Some"
    /\ parts' = [parts EXCEPT ![c] = Some(into_inner(container[c].val))]
    /\ container' = [container EXCEPT ![c] = [tag |-> "Moved"]]
    /\ last' = [last EXCEPT ![c] = "into_inner"]
    /\ UNCHANGED <<trace, response, shown, supplied, origin>>

\* One container, built through any entry point.
Next ==
    \/ Call_new("a")
    \/ Call_new_with_tracing("a")
    \/ Invoke_detailed_error("a")
    \/ Invoke_e("a")
    \/ Invoke_w("a")
    \/ Call_log("a")
    \/ Call_to_response("a")
    \/ Call_fmt("a")
    \/ Call_into_inner("a")

Spec == Init /\ [][Next]_vars

\* Two containers side by side, built by new_with_tracing from a smaller set
\* of arguments, and read through to_response().
PairArgs ==
    { a \in TracingArgs :
        /\ Len(a.private) = 1
        /\ a.context \in {None, Some("failed to read my amazing file")}
        /\ a.level \in {"ERROR", "TRACE"}
        /\ a.fields \in {EmptyMap, MapFrom(<<<<"user_id", "42">>>>)} }

Pair_new_with_tracing(c) ==
    /\ origin[c] = None
    /\ \E a \in PairArgs :
        Bind(c, [via |-> "new_with_tracing"], [fn |-> "new_with_tracing", args |-> a])

NextPair ==
    \E c \in Ids :
        \/ Pair_new_with_tracing(c)
        \/ Call_to_response(c)

SpecPair == Init /\ [][NextPair]_vars

\* ---------------------------------------------------------------- properties
\* The constructor of c has returned.
Constructed(c) == origin[c] # None

\* The container is still owned by c (not moved out by into_inner).
Live(c) == container[c].tag = "Some"

\* The records emitted for c, in order.
Emitted(c) ==
    LET RECURSIVE pick(_)
        pick(t) == IF t = <<>> THEN <<>>
                   ELSE IF Head(t).ev = "emit"
                        THEN <<Head(t).record>> \o pick(Tail(t))
                        ELSE pick(Tail(t))
    IN  pick(trace[c])

\* The cause chain the arguments of c's constructor describe, outermost first.
SuppliedChain(c) ==
    LET a == supplied[c].val
    IN  IF a.context.tag = "Some" THEN <<a.context.val>> \o a.private ELSE a.private

\* C1: once a constructor (new or new_with_tracing, through any entry point)
\* has returned, exactly one record was emitted before the return, and a
\* container that is still held has has_logged = TRUE.
C1_LoggedOnReturn ==
    \A c \in Ids :
        Constructed(c) =>
            /\ Live(c) => container[c].val.meta.has_logged
            /\ \E k \in 1..Len(trace[c]) :
                /\ trace[c][k].ev = "return"
                /\ \A j \in 1..(k - 1) : trace[c][j].ev = "emit"
                /\ k - 1 = 1

C1_Witness ==
    /\ last["a"] = "new_with_tracing"
    /\ supplied["a"].val.context # None
    /\ DOMAIN supplied["a"].val.fields # {}
    /\ supplied["a"].val.level = "DEBUG"

\* C2: on every step, a constructed container has exactly one emitted record,
\* has_logged never goes from TRUE to FALSE, and a log() call on a container
\* with has_logged = TRUE changes neither the container nor the emitted records.
C2_LogIdempotent ==
    [][\A c \in Ids :
        /\ Constructed(c)' => Len(Emitted(c))' = 1
        /\ (Live(c) /\ Live(c)' /\ container[c].val.meta.has_logged)
              => container'[c].val.meta.has_logged
        /\ (Live(c) /\ container[c].val.meta.has_logged /\ last'[c] = "log")
              => (container'[c] = container[c] /\ trace'[c] = trace[c])]_vars

C2_Witness ==
    /\ last["a"] = "log"
    /\ response["a"] # None
    /\ Len(Emitted("a")) = 1

\* C3: at every severity, the emitted record carries additional_context, equal
\* to the fields mapping, exactly when the fields mapping is non-empty.
C3_AdditionalContext ==
    \A c \in Ids :
        \A i \in 1..Len(Emitted(c)) :
            LET r == Emitted(c)[i]
                fields == supplied[c].val.fields
            IN  IF DOMAIN fields # {}
                THEN /\ "additional_context" \in DOMAIN r
                     /\ r.additional_context = fields
                ELSE "additional_context" \notin DOMAIN r

C3_Witness ==
    /\ Constructed("a")
    /\ supplied["a"].val.level = "TRACE"
    /\ supplied["a"].val.fields = MapFrom(<<<<"user_id", "42">>>>)
    /\ Len(Emitted("a")) = 1
    /\ "additional_context" \in DOMAIN Emitted("a")[1]

\* C4 (as claimed): errors is the chain without its first cause; without a
\* context it is empty, with a context it is the private error's display
\* string alone.
C4_ErrorsAsClaimed ==
    \A c \in Ids :
        \A i \in 1..Len(Emitted(c)) :
            LET r == Emitted(c)[i]
                a == supplied[c].val
            IN  /\ r.errors = Tail(SuppliedChain(c))
                /\ r.message = Head(SuppliedChain(c))
                /\ a.context = None => r.errors = <<>>
                /\ a.context # None => r.errors = <<a.private[1]>>

\* C4 (amended): errors is the chain without its first cause, outermost
\* first, and the first cause is the message; without a context errors is the
\* display strings of the private error's own sources (empty when it has
\* none), with a context it is the private error's display string followed by
\* those of its sources (the sole entry when it has none).
C4_TrailingCauses ==
    \A c \in Ids :
        \A i \in 1..Len(Emitted(c)) :
            LET r == Emitted(c)[i]
                a == supplied[c].val
            IN  /\ r.errors = Tail(SuppliedChain(c))
                /\ r.message = Head(SuppliedChain(c))
                /\ a.context = None => r.errors = Tail(a.private)
                /\ (a.context = None /\ Len(a.private) = 1) => r.errors = <<>>
                /\ a.context # None => r.errors = a.private
                /\ (a.context # None /\ Len(a.private) = 1) => r.errors = <<a.private[1]>>

C4_Witness ==
    /\ Constructed("a")
    /\ supplied["a"].val.context = Some("failed to read my amazing file")
    /\ supplied["a"].val.private = <<"query failed", "connection reset">>
    /\ Len(Emitted("a")) = 1
    /\ Emitted("a")[1].errors = <<"query failed", "connection reset">>

\* C5: the emitted record has the severity given to the constructor and
\* carries errors, public_error (the public value's debug form), file, line,
\* module and the message; file and module are the constructor's arguments,
\* and line is the 64-bit value with the numeric value of the u32 argument.
C5_RecordShape ==
    \A c \in Ids :
        \A i \in 1..Len(Emitted(c)) :
            LET r == Emitted(c)[i]
                a == supplied[c].val
            IN  /\ r.severity = a.level
                /\ {"errors", "public_error", "file", "line", "module", "message"}
                       \subseteq DOMAIN r
                /\ r.public_error = a.public.variant
                /\ r.file = a.file
                /\ r.module = a.module
                /\ r.message = Head(SuppliedChain(c))
                /\ Len(r.line) = 4
                /\ r.line[1] = 0 /\ r.line[2] = 0
                /\ <<r.line[3], r.line[4]>> = a.line

C5_Witness ==
    /\ Constructed("a")
    /\ supplied["a"].val.line = <<65535, 65535>>
    /\ supplied["a"].val.level = "DEBUG"
    /\ DOMAIN supplied["a"].val.fields = {}
    /\ Len(Emitted("a")) = 1
    /\ Emitted("a")[1].severity = "DEBUG"

\* C6: a to_response() call returns the public value's response mapping, the
\* same as any earlier call did, and leaves the container and the emitted
\* records as they were.
C6_ToResponsePure ==
    [][\A c \in Ids :
        last'[c] = "to_response" =>
            /\ response'[c] =
                   Some([category |-> supplied[c].val.public.variant,
                         msg |-> Display(supplied[c].val.public)])
            /\ response[c] # None => response'[c] = response[c]
            /\ container'[c] = container[c]
            /\ Emitted(c)' = Emitted(c)
            /\ Len(Emitted(c))' = 1]_vars

C6_Witness ==
    /\ last["a"] = "to_response"
    /\ shown["a"] # None
    /\ response["a"] =
           Some([category |-> "NotFound", msg |-> "The requested resource does not exist."])

\* C7 (as claimed): into_inner() returns the chain and the public value the
\* container was built with, emits nothing, and the chain's root (innermost)
\* cause is the supplied private error.
C7_RootAsClaimed ==
    \A c \in Ids :
        parts[c] # None =>
            LET chain == parts[c].val[1]
            IN  /\ chain = SuppliedChain(c)
                /\ parts[c].val[2] = supplied[c].val.public
                /\ Len(Emitted(c)) = 1
                /\ chain[Len(chain)] = supplied[c].val.private[1]

\* C7 (amended): into_inner() returns the chain and the public value the
\* container was built with and emits nothing; the supplied private error is
\* the chain's outermost cause, or the cause right below the context when one
\* was attached, with its own sources below it, and it is the root (innermost)
\* cause when it has no source of its own.
C7_PartsPreserved ==
    \A c \in Ids :
        parts[c] # None =>
            LET chain == parts[c].val[1]
                a == supplied[c].val
                skip == IF a.context = None THEN 0 ELSE 1
            IN  /\ chain = SuppliedChain(c)
                /\ parts[c].val[2] = a.public
                /\ Len(Emitted(c)) = 1
                /\ Len(chain) = skip + Len(a.private)
                /\ chain[skip + 1] = a.private[1]
                /\ SubSeq(chain, skip + 1, Len(chain)) = a.private
                /\ Len(a.private) = 1 => chain[Len(chain)] = a.private[1]

C7_Witness ==
    /\ last["a"] = "into_inner"
    /\ response["a"] # None
    /\ supplied["a"].val.context # None
    /\ parts["a"] = Some(<<<<"IBrokeThis", "file not found">>, [variant |-> "NotFound"]>>)

\* C8: a container built by e! or w! is the one detailed_error! builds at
\* Level::ERROR, respectively Level::WARN, from the same arguments in the same
\* positions, and whatever detailed_error! accepts at those levels the short
\* form accepts too.
C8_ShortForms ==
    \A c \in Ids :
        Constructed(c) =>
            LET o == origin[c].val
            IN  /\ o.via \in {"e!", "w!"} =>
                    /\ detailed_error(o.level, o.inv, o.site) # NoRule
                    /\ supplied[c].val = Received(detailed_error(o.level, o.inv, o.site))
                /\ (o.via = "detailed_error!" /\ o.level = "ERROR") =>
                    e(o.inv, o.site) = detailed_error("ERROR", o.inv, o.site)
                /\ (o.via = "detailed_error!" /\ o.level = "WARN") =>
                    w(o.inv, o.site) = detailed_error("WARN", o.inv, o.site)

\* C9: two containers built with the same public value answer to_response()
\* alike, whatever their private errors, contexts, fields, call sites and
\* severities.
C9_ResponseFromPublicOnly ==
    \A c, d \in Ids :
        (/\ response[c] # None
         /\ response[d] # None
         /\ supplied[c].val.public = supplied[d].val.public)
            => response[c] = response[d]

C9_Witness ==
    /\ response["a"] # None
    /\ response["b"] # None
    /\ supplied["a"].val.public = supplied["b"].val.public
    /\ supplied["a"].val.private # supplied["b"].val.private
    /\ supplied["a"].val.context # supplied["b"].val.context
    /\ supplied["a"].val.fields # supplied["b"].val.fields
    /\ supplied["a"].val.level # supplied["b"].val.level
    /\ supplied["a"].val.line # supplied["b"].val.line

\* C10 (as claimed): the Display form of a container is the display string of
\* the supplied private error, with or without a context.
C10_DisplayAsClaimed ==
    \A c \in Ids :
        shown[c] # None => shown[c].val = supplied[c].val.private[1]

\* C10 (amended): the Display form of a container is its outermost cause: the
\* context when one was attached, the display string of the supplied private
\* error otherwise.
C10_DisplayOutermost ==
    \A c \in Ids :
        shown[c] # None =>
            LET a == supplied[c].val
            IN  shown[c].val =
                    IF a.context = None THEN a.private[1] ELSE a.context.val

C10_Witness ==
    /\ last["a"] = "fmt"
    /\ supplied["a"].val.context = Some("failed to read my amazing file")
    /\ supplied["a"].val.private = <<"query failed", "connection reset">>
    /\ shown["a"] = Some("failed to read my amazing file")

====
